---- MODULE Spec2Model ----
(***************************************************************************)
(* fqbarcode: barcode counting and merging (src/main.rs).                  *)
(*                                                                         *)
(* main() reads one sequence line per FASTQ record, extracts a barcode     *)
(* label with a regular expression, counts the labels in a HashMap, merges *)
(* low-count labels into the nearest high-count "endpoint" labels by       *)
(* Levenshtein distance, and prints the counts.                            *)
(*                                                                         *)
(* A label is a sequence of one-character strings.  A HashMap<String,u64>  *)
(* is a function whose DOMAIN is its key set.  A Vec<(String,u64)> is a    *)
(* sequence of pairs <<label, count>>.  The iteration order of a HashMap   *)
(* is not specified by Rust, so every place that iterates one into an      *)
(* ordered collection chooses an arbitrary permutation of its keys.        *)
(***************************************************************************)
EXTENDS Integers, Sequences, FiniteSets

\* ------------------------------------------------------------------ bounds

\* Largest number of reads taken from the input file.
MaxReads == 7
\* Largest value of --merge-count tried.
MaxThresholdCount == 2
\* Largest value of --threshold-distance tried.
MaxThresholdDistance == 2

\* The labels the extraction can yield in this model.
AAA == <<"A", "A", "A">>
AAB == <<"A", "A", "B">>
AAC == <<"A", "A", "C">>
BB  == <<"B", "B">>
Labels == {AAA, AAB, AAC, BB}

\* The outcome of barcode_re.captures(&read) followed by c.expand(..): a read
\* either yields Some label or None.
None == <<>>
Reads == Labels \cup {None}

VARIABLES
    args,                  \* the parsed command line (threshold_count, threshold_distance, sort_barcodes)
    pc,                    \* position of main(): collect, merge, report, print, done
    barcodes,              \* HashMap<String, u64>: label -> count
    total_reads,           \* u64
    no_barcode,            \* u64
    endpoint_barcodes,     \* HashSet<String>
    non_endpoint_barcodes, \* Vec<(String, u64)>, ascending by count
    next_candidate,        \* position of the `for` loop over non_endpoint_barcodes
    pre_merge,             \* the value of `barcodes` when the collection loop ended
    merge_log,             \* "merging barcode X into Y" debug lines: X -> Y
    barcodes_vec,          \* Vec<(String, u64)> built for printing
    stdout                 \* the lines printed, as pairs <<count, label>>

vars == <<args, pc, barcodes, total_reads, no_barcode, endpoint_barcodes,
          non_endpoint_barcodes, next_candidate, pre_merge, merge_log,
          barcodes_vec, stdout>>

\* ------------------------------------------------------------- pure helpers

EmptyMap == [b \in {} |-> 0]

Min2(a, b) == IF a <= b THEN a ELSE b

\* levenshtein(a, b): the edit distance (insertions, deletions, substitutions).
RECURSIVE Lev(_, _)
Lev(a, b) ==
    IF Len(a) = 0 THEN Len(b)
    ELSE IF Len(b) = 0 THEN Len(a)
    ELSE IF Head(a) = Head(b) THEN Lev(Tail(a), Tail(b))
    ELSE 1 + Min2(Lev(Tail(a), b), Min2(Lev(a, Tail(b)), Lev(Tail(a), Tail(b))))

\* The distances between all labels of the model, computed once.
Distance == [p \in Labels \X Labels |-> Lev(p[1], p[2])]

levenshtein(a, b) == Distance[<<a, b>>]

\* Every order in which the keys S of a HashMap can be iterated.
RECURSIVE IterationOrders(_)
IterationOrders(S) ==
    IF S = {} THEN {<<>>}
    ELSE UNION {{<<x>> \o p : p \in IterationOrders(S \ {x})} : x \in S}

\* The (key, value) pairs of map m in iteration order `order`.
Pairs(m, order) == [i \in 1..Len(order) |-> <<order[i], m[order[i]]>>]

\* count_barcodes(m): the sum of the counts.
RECURSIVE SumOver(_, _)
SumOver(m, S) ==
    IF S = {} THEN 0
    ELSE LET b == CHOOSE x \in S : TRUE IN m[b] + SumOver(m, S \ {b})

count_barcodes(m) == SumOver(m, DOMAIN m)

\* Stable insertion of pair x into the sorted sequence s (descending count
\* when desc, ascending otherwise): x goes after every element it does not
\* strictly precede, so equal counts keep their original relative order.
RECURSIVE InsertStable(_, _, _)
InsertStable(x, s, desc) ==
    IF s = <<>> THEN <<x>>
    ELSE LET h == Head(s)
             xFirst == IF desc THEN x[2] > h[2] ELSE x[2] < h[2]
         IN IF xFirst THEN <<x>> \o s
            ELSE <<h>> \o InsertStable(x, Tail(s), desc)

RECURSIVE SortStable(_, _)
SortStable(s, desc) ==
    IF s = <<>> THEN <<>>
    ELSE InsertStable(s[Len(s)], SortStable(SubSeq(s, 1, Len(s) - 1), desc), desc)

\* sort_barcodes(s): s.sort_by(|a, b| b.1.cmp(&a.1)), a stable descending sort.
sort_barcodes(s) == SortStable(s, TRUE)

\* non_endpoint_barcodes.sort_by(|a, b| a.1.cmp(&b.1)), a stable ascending sort.
SortAscending(s) == SortStable(s, FALSE)

\* ------------------------------------------------------ steps of main()

\* Mutant of Increment: a label seen for the first time is inserted with 0 and
\* not incremented.
Increment_NewKeyZero(m, label) ==
    [x \in DOMAIN m \cup {label} |->
        IF x = label THEN (IF label \in DOMAIN m THEN m[label] + 1 ELSE 0)
        ELSE m[x]]

\* *barcodes.entry(label).or_insert(0) += 1
Increment(m, label) ==
    [x \in DOMAIN m \cup {label} |->
        IF x = label THEN (IF label \in DOMAIN m THEN m[label] ELSE 0) + 1
        ELSE m[x]]

\* Mutant of IsEndpoint: the comparison is not strict.
IsEndpoint_AtLeast(count, threshold) == count >= threshold

\* Mutant of IsEndpoint: the comparison is reversed.
IsEndpoint_Reversed(count, threshold) == count < threshold

\* The filter of endpoint_barcodes: count > &args.threshold_count
IsEndpoint(count, threshold) == count > threshold

EndpointBarcodes(m, threshold) ==
    {b \in DOMAIN m : IsEndpoint(m[b], threshold)}

\* The non-endpoint (barcode, count) pairs, collected in the map's iteration
\* order and then sorted by count, lowest first.
NonEndpointBarcodes(m, endpoints, order) ==
    SortAscending(SelectSeq(Pairs(m, order), LAMBDA p : p[1] \notin endpoints))

\* end_point_distances: endpoint -> levenshtein(barcode, endpoint)
EndPointDistances(barcode, endpoints) ==
    [e \in endpoints |-> levenshtein(barcode, e)]

\* Mutant of MinEndpointDistance: max() in place of min().
MinEndpointDistance_Max(distances) ==
    IF DOMAIN distances = {} THEN 0
    ELSE CHOOSE d \in {distances[e] : e \in DOMAIN distances} :
            \A e \in DOMAIN distances : d >= distances[e]

\* end_point_distances.values().copied().min().unwrap_or(0)
MinEndpointDistance(distances) ==
    IF DOMAIN distances = {} THEN 0
    ELSE CHOOSE d \in {distances[e] : e \in DOMAIN distances} :
            \A e \in DOMAIN distances : d <= distances[e]

\* Mutant of WithinThreshold: the comparison is strict.
WithinThreshold_Strict(min_distance, threshold) == min_distance < threshold

\* if min_endpoint_distance <= args.threshold_distance
WithinThreshold(min_distance, threshold) == min_distance <= threshold

\* Mutant of MinDistanceEndpointBarcodes: no filter on the distance.
MinDistanceEndpointBarcodes_All(distances, min_distance) == DOMAIN distances

\* min_distance_endpoint_barcodes: the endpoints at the minimum distance
MinDistanceEndpointBarcodes(distances, min_distance) ==
    {e \in DOMAIN distances : distances[e] = min_distance}

\* Mutant of MergeInto: the barcode is removed and its count is not added.
MergeInto_DropCount(m, barcode, count, selected_endpoint) ==
    [x \in DOMAIN m \ {barcode} |-> m[x]]

\* Mutant of MergeInto: the count is assigned to the endpoint, not added.
MergeInto_Overwrite(m, barcode, count, selected_endpoint) ==
    [x \in (DOMAIN m \cup {selected_endpoint}) \ {barcode} |->
        IF x = selected_endpoint THEN count ELSE m[x]]

\* Mutant of MergeInto: barcode and endpoint are exchanged, the endpoint is
\* merged into the barcode.
MergeInto_Exchanged(m, barcode, count, selected_endpoint) ==
    [x \in (DOMAIN m \cup {barcode}) \ {selected_endpoint} |->
        IF x = barcode
        THEN (IF barcode \in DOMAIN m THEN m[barcode] ELSE 0) + count
        ELSE m[x]]

\* *barcodes.entry(selected_endpoint).or_insert(0) += count;
\* barcodes.remove(&barcode);
MergeInto(m, barcode, count, selected_endpoint) ==
    [x \in (DOMAIN m \cup {selected_endpoint}) \ {barcode} |->
        IF x = selected_endpoint
        THEN (IF selected_endpoint \in DOMAIN m THEN m[selected_endpoint] ELSE 0) + count
        ELSE m[x]]

\* The label printed on the last line.
NoBarcodeLabel == <<"no_barcode">>

\* println!("{}\t{}", count, barcode) for each pair, then the no_barcode line.
ReportLines(s, unmatched) ==
    [i \in 1..Len(s) |-> <<s[i][2], s[i][1]>>] \o <<<<unmatched, NoBarcodeLabel>>>>

\* ------------------------------------------------------------------ state

ArgsSet ==
    [threshold_count : 0..MaxThresholdCount,
     threshold_distance : 0..MaxThresholdDistance,
     sort_barcodes : BOOLEAN]

Init ==
    /\ args \in ArgsSet
    /\ pc = "collect"
    /\ barcodes = EmptyMap
    /\ total_reads = 0
    /\ no_barcode = 0
    /\ endpoint_barcodes = {}
    /\ non_endpoint_barcodes = <<>>
    /\ next_candidate = 1
    /\ pre_merge = EmptyMap
    /\ merge_log = EmptyMap
    /\ barcodes_vec = <<>>
    /\ stdout = <<>>

\* One iteration of the loop over the reads.
ProcessRead(read) ==
    /\ pc = "collect"
    /\ total_reads < MaxReads
    /\ IF read # None
       THEN /\ barcodes' = Increment(barcodes, read)
            /\ UNCHANGED no_barcode
       ELSE /\ no_barcode' = no_barcode + 1
            /\ UNCHANGED barcodes
    /\ total_reads' = total_reads + 1
    /\ UNCHANGED <<args, pc, endpoint_barcodes, non_endpoint_barcodes,
                   next_candidate, pre_merge, merge_log, barcodes_vec, stdout>>

\* The input ends, some barcode passes the threshold count: the endpoints and
\* the sorted list of the other barcodes are built.
PartitionEndpoints ==
    /\ pc = "collect"
    /\ LET endpoints == EndpointBarcodes(barcodes, args.threshold_count) IN
        /\ endpoints # {}
        /\ endpoint_barcodes' = endpoints
        /\ \E order \in IterationOrders(DOMAIN barcodes) :
            non_endpoint_barcodes' = NonEndpointBarcodes(barcodes, endpoints, order)
        /\ pc' = IF DOMAIN barcodes \subseteq endpoints THEN "report" ELSE "merge"
    /\ next_candidate' = 1
    /\ pre_merge' = barcodes
    /\ UNCHANGED <<args, barcodes, total_reads, no_barcode, merge_log,
                   barcodes_vec, stdout>>

\* The input ends and no barcode passes the threshold count: merging is not
\* performed.
NoEndpoints ==
    /\ pc = "collect"
    /\ EndpointBarcodes(barcodes, args.threshold_count) = {}
    /\ endpoint_barcodes' = {}
    /\ pre_merge' = barcodes
    /\ pc' = "report"
    /\ UNCHANGED <<args, barcodes, total_reads, no_barcode, non_endpoint_barcodes,
                   next_candidate, merge_log, barcodes_vec, stdout>>

AfterCandidate ==
    IF next_candidate = Len(non_endpoint_barcodes) THEN "report" ELSE "merge"

\* One iteration of the loop over non_endpoint_barcodes in which the barcode
\* is merged into an endpoint chosen at random among the nearest ones.
MergeCandidate ==
    /\ pc = "merge"
    /\ LET barcode == non_endpoint_barcodes[next_candidate][1]
           count == non_endpoint_barcodes[next_candidate][2]
           distances == EndPointDistances(barcode, endpoint_barcodes)
           min_endpoint_distance == MinEndpointDistance(distances)
       IN /\ WithinThreshold(min_endpoint_distance, args.threshold_distance)
          /\ \E selected_endpoint \in
                  MinDistanceEndpointBarcodes(distances, min_endpoint_distance) :
              /\ barcodes' = MergeInto(barcodes, barcode, count, selected_endpoint)
              /\ merge_log' = [x \in DOMAIN merge_log \cup {barcode} |->
                                  IF x = barcode THEN selected_endpoint ELSE merge_log[x]]
    /\ next_candidate' = next_candidate + 1
    /\ pc' = AfterCandidate
    /\ UNCHANGED <<args, total_reads, no_barcode, endpoint_barcodes,
                   non_endpoint_barcodes, pre_merge, barcodes_vec, stdout>>

\* One iteration of the loop over non_endpoint_barcodes in which the barcode
\* is not merged: the minimum distance is too great (or choose() found no
\* endpoint to select).
KeepCandidate ==
    /\ pc = "merge"
    /\ LET barcode == non_endpoint_barcodes[next_candidate][1]
           distances == EndPointDistances(barcode, endpoint_barcodes)
           min_endpoint_distance == MinEndpointDistance(distances)
       IN \/ ~WithinThreshold(min_endpoint_distance, args.threshold_distance)
          \/ MinDistanceEndpointBarcodes(distances, min_endpoint_distance) = {}
    /\ next_candidate' = next_candidate + 1
    /\ pc' = AfterCandidate
    /\ UNCHANGED <<args, barcodes, total_reads, no_barcode, endpoint_barcodes,
                   non_endpoint_barcodes, pre_merge, merge_log, barcodes_vec, stdout>>

\* let mut barcodes: Vec<(String, u64)> = barcodes.iter().map(..).collect();
CollectVec ==
    /\ pc = "report"
    /\ \E order \in IterationOrders(DOMAIN barcodes) :
        barcodes_vec' = Pairs(barcodes, order)
    /\ pc' = "print"
    /\ UNCHANGED <<args, barcodes, total_reads, no_barcode, endpoint_barcodes,
                   non_endpoint_barcodes, next_candidate, pre_merge, merge_log, stdout>>

\* sort_barcodes(&mut barcodes); then every pair and the no_barcode line are
\* printed.  args.sort_barcodes is not read.
PrintReport ==
    /\ pc = "print"
    /\ barcodes_vec' = sort_barcodes(barcodes_vec)
    /\ stdout' = ReportLines(barcodes_vec', no_barcode)
    /\ pc' = "done"
    /\ UNCHANGED <<args, barcodes, total_reads, no_barcode, endpoint_barcodes,
                   non_endpoint_barcodes, next_candidate, pre_merge, merge_log>>

Next ==
    \/ \E read \in Reads : ProcessRead(read)
    \/ PartitionEndpoints
    \/ NoEndpoints
    \/ MergeCandidate
    \/ KeepCandidate
    \/ CollectVec
    \/ PrintReport

Spec == Init /\ [][Next]_vars

TypeOK ==
    /\ args \in ArgsSet
    /\ pc \in {"collect", "merge", "report", "print", "done"}
    /\ DOMAIN barcodes \subseteq Labels
    /\ \A b \in DOMAIN barcodes : barcodes[b] \in 0..MaxReads
    /\ total_reads \in 0..MaxReads
    /\ no_barcode \in 0..MaxReads
    /\ endpoint_barcodes \subseteq Labels
    /\ next_candidate \in 1..(Len(non_endpoint_barcodes) + 1)

\* ----------------------------------------------------------------- claims

\* The states after the collection loop.
Partitioned == pc \in {"merge", "report", "print", "done"}

\* The states after the loop over the candidates (or after it was skipped).
Reconciled == pc \in {"report", "print", "done"}

\* The candidates of the partition: the keys that are not endpoints.
Candidates == DOMAIN pre_merge \ endpoint_barcodes

\* The smallest edit distance from barcode c to a member of the endpoint set.
MinDist(c) ==
    CHOOSE d \in {levenshtein(c, e) : e \in endpoint_barcodes} :
        \A e \in endpoint_barcodes : d <= levenshtein(c, e)

\* C1. Conservation: in every state, during collection and during
\* reconciliation, the counts of the table plus no_barcode add up to
\* total_reads.
C1_Conservation ==
    count_barcodes(barcodes) + no_barcode = total_reads

\* A merge has happened, more candidates remain, and some read was unmatched.
C1_Witness ==
    /\ pc = "merge"
    /\ merge_log # EmptyMap
    /\ no_barcode > 0
    /\ total_reads = MaxReads

\* C2. Endpoint immutability: every barcode whose count exceeds
\* threshold_count when the input ends is put in the endpoint set; from then
\* on every step leaves the endpoint set as it is, keeps each endpoint a key of
\* the table and never lowers its count.
C2_EndpointImmutability ==
    [][/\ (pc = "collect" /\ pc' # "collect") =>
            \A b \in DOMAIN barcodes :
                barcodes[b] > args.threshold_count =>
                    b \in endpoint_barcodes' /\ b \in DOMAIN barcodes'
       /\ pc # "collect" =>
            /\ endpoint_barcodes' = endpoint_barcodes
            /\ \A e \in endpoint_barcodes :
                /\ e \in DOMAIN barcodes'
                /\ barcodes'[e] >= barcodes[e]]_vars

\* An endpoint has absorbed the count of a candidate.
C2_Witness ==
    /\ Partitioned
    /\ \E e \in endpoint_barcodes : barcodes[e] > pre_merge[e]

\* C3. Tie-break confined to the nearest endpoints: a step that removes a key
\* from the table adds its count to one endpoint whose edit distance to it is
\* the minimum over all endpoints and changes no other count; a step that
\* removes no key changes no count of the reconciliation.
C3_TieBreakNearest ==
    [][pc = "merge" =>
        /\ \A c \in DOMAIN barcodes \ DOMAIN barcodes' :
            \E e \in endpoint_barcodes :
                /\ \A f \in endpoint_barcodes : levenshtein(c, e) <= levenshtein(c, f)
                /\ e \in DOMAIN barcodes'
                /\ barcodes'[e] = barcodes[e] + barcodes[c]
                /\ \A x \in DOMAIN barcodes' \ {e} :
                    x \in DOMAIN barcodes /\ barcodes'[x] = barcodes[x]
        /\ DOMAIN barcodes \subseteq DOMAIN barcodes' => barcodes' = barcodes]_vars

\* A candidate was merged while two endpoints tied at the minimum distance
\* and a third one was farther away.
C3_Witness ==
    \E c \in DOMAIN merge_log :
        \E f, g \in endpoint_barcodes :
            /\ f # merge_log[c]
            /\ levenshtein(c, f) = levenshtein(c, merge_log[c])
            /\ levenshtein(c, g) > levenshtein(c, merge_log[c])

C6_FinalTable ==
    (Reconciled /\ endpoint_barcodes # {}) =>
        LET far == {c \in Candidates : MinDist(c) > args.threshold_distance} IN
            /\ DOMAIN barcodes = endpoint_barcodes \cup far
            /\ \A c \in far : barcodes[c] = pre_merge[c]
            /\ \A c \in Candidates \ far : c \notin DOMAIN barcodes
            /\ next_candidate = Len(non_endpoint_barcodes) + 1
            /\ Len(non_endpoint_barcodes) = Cardinality(Candidates)
            /\ \A c \in Candidates :
                \E i \in 1..Len(non_endpoint_barcodes) :
                    non_endpoint_barcodes[i] = <<c, pre_merge[c]>>

\* A finished pass that merged one candidate and kept another.
C6_Witness ==
    /\ Reconciled
    /\ endpoint_barcodes # {}
    /\ \E c \in Candidates : c \in DOMAIN barcodes
    /\ \E c \in Candidates : c \notin DOMAIN barcodes

\* s is in descending order of count.
Descending(s) == \A i, j \in 1..Len(s) : i < j => s[i][2] >= s[j][2]

\* C7. Report order depends on the sort flag: the pairs are printed in
\* descending-count order when args.sort_barcodes is set and in the table's
\* iteration order when it is not; the no_barcode line is printed last.
C7_ReportOrderFollowsFlag ==
    [][pc = "print" =>
        LET n == Len(stdout') - 1
            printed == [i \in 1..n |-> <<stdout'[i][2], stdout'[i][1]>>]
        IN /\ n = Len(barcodes_vec)
           /\ stdout'[n + 1] = <<no_barcode, NoBarcodeLabel>>
           /\ {printed[i] : i \in 1..n} = {barcodes_vec[i] : i \in 1..n}
           /\ args.sort_barcodes => Descending(printed)
           /\ ~args.sort_barcodes => printed = barcodes_vec]_vars

\* The table of the scenario: AAA, AAB and AAC, each seen once.
Scenario == [b \in {AAA, AAB, AAC} |-> 1]

InScenario == Partitioned /\ pre_merge = Scenario /\ args.threshold_count = 0

\* C8 as stated. Scenario with all counts equal: for {AAA:1, AAB:1, AAC:1} and
\* threshold_count = 0 the endpoint set is empty and the table is returned
\* unchanged.
C8_ScenarioNoEndpoints ==
    InScenario => endpoint_barcodes = {} /\ barcodes = Scenario

\* C8 as amended. For {AAA:1, AAB:1, AAC:1} and threshold_count = 0 every key
\* is an endpoint (1 > 0), the candidate list is empty, no merge is performed
\* and the table is returned unchanged.
C8_ScenarioAllEndpoints ==
    InScenario =>
        /\ endpoint_barcodes = {AAA, AAB, AAC}
        /\ non_endpoint_barcodes = <<>>
        /\ merge_log = EmptyMap
        /\ barcodes = Scenario

\* The scenario has been reconciled.
C8_Witness == InScenario /\ Reconciled

\* C9. Every key of the table has count >= 1; with threshold_count = 0 every
\* key is an endpoint, the candidate list is empty and reconciliation leaves
\* the table as collected, whatever threshold_distance is.
C9_DefaultThresholdNoMerge ==
    /\ \A b \in DOMAIN barcodes : barcodes[b] >= 1
    /\ (Partitioned /\ args.threshold_count = 0) =>
        /\ endpoint_barcodes = DOMAIN pre_merge
        /\ non_endpoint_barcodes = <<>>
        /\ merge_log = EmptyMap
        /\ barcodes = pre_merge

\* threshold_count = 0 and a table with keys of different counts within the
\* distance threshold of each other.
C9_Witness ==
    /\ Reconciled
    /\ args.threshold_count = 0
    /\ \E a, b \in DOMAIN pre_merge :
        /\ pre_merge[a] < pre_merge[b]
        /\ levenshtein(a, b) <= args.threshold_distance

\* The loop over the candidates run on table m with the candidates in the
\* order of `list`, every merged candidate going to the endpoint that
\* merge_log records for it.
RECURSIVE ReconcileInOrder(_, _)
ReconcileInOrder(m, list) ==
    IF list = <<>> THEN m
    ELSE LET barcode == list[1][1]
             count == list[1][2]
             distances == EndPointDistances(barcode, endpoint_barcodes)
             merged == /\ WithinThreshold(MinEndpointDistance(distances),
                                          args.threshold_distance)
                       /\ barcode \in DOMAIN merge_log
         IN ReconcileInOrder(
                IF merged THEN MergeInto(m, barcode, count, merge_log[barcode]) ELSE m,
                Tail(list))

\* C10. Order independence: with the table, the thresholds and the endpoint
\* selected for each candidate fixed, processing the candidates in any order
\* gives the table that the run produced.
C10_OrderIndependence ==
    (pc = "report" /\ endpoint_barcodes # {}) =>
        \A order \in IterationOrders(Candidates) :
            ReconcileInOrder(pre_merge, Pairs(pre_merge, order)) = barcodes

\* Two candidates with different counts were merged into the same endpoint.
C10_Witness ==
    /\ pc = "report"
    /\ \E a, b \in DOMAIN merge_log :
        /\ merge_log[a] = merge_log[b]
        /\ pre_merge[a] < pre_merge[b]

====
